---- MODULE Spec2Model ----
(***************************************************************************)
(* Singly linked list of docs/linked-list/code/singly.rs.                  *)
(*                                                                         *)
(* The heap is modelled explicitly: every Box<Node> is a node identifier,  *)
(* `data` and `next` are the two fields of the allocated nodes, and an     *)
(* Option<Box<Node>> is either a node identifier or Nil.  Every function   *)
(* of `impl Node` is an operator over a list value [head, data, next] that *)
(* follows the loops of the source and yields the returned list together   *)
(* with the panic (if any) and the line printed.  The actions are the      *)
(* calls a caller makes: either `main`, or an arbitrary host program that  *)
(* keeps the returned handle and calls the next operation on it.           *)
(***************************************************************************)
EXTENDS Integers, Sequences, FiniteSets, TLC

VARIABLES head, data, next, abort, report, lastOp, pre, calls, found,
          ref, refValid, caller, pc

vars == <<head, data, next, abort, report, lastOp, pre, calls, found,
          ref, refValid, caller, pc>>

\* ---------------------------------------------------------------- bounds
\* longest list the host program builds
MaxLen == 3
\* payloads the host program inserts are 0..MaxVal
MaxVal == 1

Values == 0..MaxVal
\* indices the host program passes: every in-range index and one beyond
Indices == 0..(MaxLen + 1)

\* ------------------------------------------------------------- the heap
\* Option::None
Nil == 0

is_none(link) == link = Nil
is_some(link) == link # Nil

IndexOutOfBounds == "Index out of bounds"
ListIsEmpty == "List is empty"
UnwrapNone == "unwrap on None"
SubOverflow == "attempt to subtract with overflow"

\* the empty handle of `let mut head = None`
EmptyList == [head |-> Nil, data |-> <<>>, next |-> <<>>]

List(h, d, n) == [head |-> h, data |-> d, next |-> n]

\* the value an operation leaves behind: the list, the panic message
\* ("ok" when it returned) and the line it printed ("" when none)
Res(l, status, line) ==
    [head |-> l.head, data |-> l.data, next |-> l.next,
     status |-> status, report |-> line]

\* Box::new: the allocation gets an address no live node has
Alloc(l) ==
    CHOOSE i \in 1..(Cardinality(DOMAIN l.next) + 1) :
        /\ i \notin DOMAIN l.next
        /\ \A j \in 1..(i - 1) : j \in DOMAIN l.next

\* a Box<Node> going out of scope frees the node and the chain it owns
RECURSIVE DropChain(_, _)
DropChain(l, n) ==
    IF n = Nil \/ n \notin DOMAIN l.next THEN l
    ELSE LET rest == DOMAIN l.next \ {n}
         IN DropChain(List(l.head, [m \in rest |-> l.data[m]],
                                   [m \in rest |-> l.next[m]]),
                      l.next[n])

\* Option::unwrap
unwrap(link) ==
    IF link = Nil THEN [status |-> UnwrapNone, node |-> Nil]
    ELSE [status |-> "ok", node |-> link]

\* usize subtraction: -1 stands for the overflow panic
usize_sub(a, b) == IF a < b THEN -1 ELSE a - b

\* Node::new followed by the store into a link: the new node and the list
new(l, d, nx) ==
    LET id == Alloc(l)
    IN [node |-> id,
        list |-> List(l.head, (id :> d) @@ l.data, (id :> nx) @@ l.next)]

\* ------------------------------------------------------- read operations
\* the list as the array of its payloads, head first
RECURSIVE Walk(_, _, _)
Walk(l, n, fuel) ==
    IF n = Nil \/ fuel = 0 THEN <<>>
    ELSE <<n>> \o Walk(l, l.next[n], fuel - 1)

\* the nodes of the list, head first
NodeSeq(l) == Walk(l, l.head, Cardinality(DOMAIN l.next))

ToSeq(l) == [i \in 1..Len(NodeSeq(l)) |-> l.data[NodeSeq(l)[i]]]

Length(l) == Len(NodeSeq(l))

\* get: the while-let loop; the result is the node reached, or Nil
RECURSIVE get_loop(_, _, _, _)
get_loop(l, current, i, index) ==
    IF is_none(current) THEN Nil
    ELSE IF i = index THEN current
    ELSE get_loop(l, l.next[current], i + 1, index)

\* get counting positions from 1
get_from_one(l, index) == get_loop(l, l.head, 1, index)

get(l, index) == get_loop(l, l.head, 0, index)

\* ------------------------------------------------------------- visitors
\* The closures handed to traverse_apply: an FnMut(&mut i32) with the
\* state it captures (the number of calls made so far).
Visitors == {"keep", "flip", "count"}

func(kind, st, x) ==
    CASE kind = "keep"  -> x
      [] kind = "flip"  -> MaxVal - x
      [] kind = "count" -> st % (MaxVal + 1)

\* traverse_apply: the while-let loop; log is the record of the calls made
RECURSIVE traverse_loop(_, _, _, _)
traverse_loop(l, current, kind, log) ==
    IF is_none(current) THEN [list |-> l, log |-> log]
    ELSE LET seen  == l.data[current]
             wrote == func(kind, Len(log), seen)
             l2    == List(l.head, [l.data EXCEPT ![current] = wrote], l.next)
         IN traverse_loop(l2, l.next[current], kind,
                Append(log, [node |-> current, seen |-> seen, wrote |-> wrote]))

\* traverse_apply starting at the second node
traverse_apply_skip_head(l, kind) ==
    IF is_none(l.head) THEN traverse_loop(l, l.head, kind, <<>>)
    ELSE traverse_loop(l, l.next[l.head], kind, <<>>)

traverse_apply(l, kind) == traverse_loop(l, l.head, kind, <<>>)

\* ----------------------------------------------------------- insertion
\* insert_at_head that forgets to link the old head
insert_at_head_unlinked(l, d) ==
    LET n == new(l, d, Nil)
    IN Res(List(n.node, n.list.data, n.list.next), "ok", "")

insert_at_head(l, d) ==
    LET n == new(l, d, l.head)
    IN Res(List(n.node, n.list.data, n.list.next), "ok", "")

\* while current.next.is_some() { current = current.next.as_mut().unwrap() }
RECURSIVE insert_at_tail_loop(_, _)
insert_at_tail_loop(l, current) ==
    IF is_some(l.next[current])
    THEN LET u == unwrap(l.next[current])
         IN IF u.status # "ok" THEN [status |-> u.status, node |-> current]
            ELSE insert_at_tail_loop(l, u.node)
    ELSE [status |-> "ok", node |-> current]

insert_at_tail(l, d) ==
    IF is_none(l.head)
    THEN LET n == new(l, d, Nil)
         IN Res(List(n.node, n.list.data, n.list.next), "ok", "")
    ELSE LET w == insert_at_tail_loop(l, l.head)
         IN IF w.status # "ok" THEN Res(l, w.status, "")
            ELSE LET n == new(l, d, Nil)
                 IN Res(List(l.head, n.list.data,
                             [n.list.next EXCEPT ![w.node] = n.node]),
                        "ok", "")

\* for _ in 0..index - 1 { if current.next.is_none() { panic } ... }
\* the walk of insert_at_index clamping the index to the length
RECURSIVE insert_at_index_loop_clamped(_, _, _)
insert_at_index_loop_clamped(l, current, n) ==
    IF n = 0 \/ is_none(l.next[current]) THEN [status |-> "ok", node |-> current]
    ELSE insert_at_index_loop_clamped(l, l.next[current], n - 1)

\* the walk of insert_at_index without the bounds check
RECURSIVE insert_at_index_loop_unchecked(_, _, _)
insert_at_index_loop_unchecked(l, current, n) ==
    IF n = 0 THEN [status |-> "ok", node |-> current]
    ELSE LET u == unwrap(l.next[current])
         IN IF u.status # "ok" THEN [status |-> u.status, node |-> current]
            ELSE insert_at_index_loop_unchecked(l, u.node, n - 1)

RECURSIVE insert_at_index_loop(_, _, _)
insert_at_index_loop(l, current, n) ==
    IF n = 0 THEN [status |-> "ok", node |-> current]
    ELSE IF is_none(l.next[current])
    THEN [status |-> IndexOutOfBounds, node |-> current]
    ELSE LET u == unwrap(l.next[current])
         IN IF u.status # "ok" THEN [status |-> u.status, node |-> current]
            ELSE insert_at_index_loop(l, u.node, n - 1)

insert_at_index(l, d, index) ==
    IF is_none(l.head)
    THEN IF index = 0
         THEN LET n == new(l, d, Nil)
              IN Res(List(n.node, n.list.data, n.list.next), "ok", "")
         ELSE Res(l, IndexOutOfBounds, "")
    ELSE IF index = 0
    THEN LET n == new(l, d, l.head)
         IN Res(List(n.node, n.list.data, n.list.next), "ok", "")
    ELSE LET cnt == usize_sub(index, 1)
         IN IF cnt < 0 THEN Res(l, SubOverflow, "")
            ELSE LET w == insert_at_index_loop(l, l.head, cnt)
                 IN IF w.status # "ok" THEN Res(l, w.status, "")
                    ELSE LET n == new(l, d, l.next[w.node])
                         IN Res(List(l.head, n.list.data,
                                     [n.list.next EXCEPT ![w.node] = n.node]),
                                "ok", "")

\* ------------------------------------------------------------ deletion
\* delete_at_head without the report on the empty list
delete_at_head_silent(l) ==
    IF is_none(l.head) THEN Res(l, "ok", "")
    ELSE LET nx   == l.next[l.head]
             cut  == List(nx, l.data, [l.next EXCEPT ![l.head] = Nil])
         IN Res(DropChain(cut, l.head), "ok", "")

delete_at_head(l) ==
    IF is_none(l.head) THEN Res(l, "ok", ListIsEmpty)
    ELSE LET nx   == l.next[l.head]
             cut  == List(nx, l.data, [l.next EXCEPT ![l.head] = Nil])
         IN Res(DropChain(cut, l.head), "ok", "")

\* the walk of delete_at_tail that never advances
delete_at_tail_loop_stuck(l, current) == [status |-> "ok", node |-> current]

\* while current.next.as_ref().unwrap().next.is_some() { ... }
RECURSIVE delete_at_tail_loop(_, _)
delete_at_tail_loop(l, current) ==
    LET a == unwrap(l.next[current])
    IN IF a.status # "ok" THEN [status |-> a.status, node |-> current]
       ELSE IF is_some(l.next[a.node])
       THEN LET u == unwrap(l.next[current])
            IN IF u.status # "ok" THEN [status |-> u.status, node |-> current]
               ELSE delete_at_tail_loop(l, u.node)
       ELSE [status |-> "ok", node |-> current]

delete_at_tail(l) ==
    IF is_none(l.head) THEN Res(l, "ok", ListIsEmpty)
    ELSE IF is_none(l.next[l.head]) THEN delete_at_head(l)
    ELSE LET w == delete_at_tail_loop(l, l.head)
         IN IF w.status # "ok" THEN Res(l, w.status, "")
            ELSE LET old == l.next[w.node]
                     cut == List(l.head, l.data, [l.next EXCEPT ![w.node] = Nil])
                 IN Res(DropChain(cut, old), "ok", "")

\* the walk of delete_at_index stopping one node early
RECURSIVE delete_at_index_loop_short(_, _, _)
delete_at_index_loop_short(l, current, n) ==
    IF n <= 1 THEN [status |-> "ok", node |-> current]
    ELSE IF is_none(l.next[current])
    THEN [status |-> IndexOutOfBounds, node |-> current]
    ELSE delete_at_index_loop_short(l, l.next[current], n - 1)

RECURSIVE delete_at_index_loop(_, _, _)
delete_at_index_loop(l, current, n) ==
    IF n = 0 THEN [status |-> "ok", node |-> current]
    ELSE IF is_none(l.next[current])
    THEN [status |-> IndexOutOfBounds, node |-> current]
    ELSE LET u == unwrap(l.next[current])
         IN IF u.status # "ok" THEN [status |-> u.status, node |-> current]
            ELSE delete_at_index_loop(l, u.node, n - 1)

delete_at_index(l, index) ==
    IF is_none(l.head) THEN Res(l, "ok", ListIsEmpty)
    ELSE IF index = 0 THEN delete_at_head(l)
    ELSE LET cnt == usize_sub(index, 1)
         IN IF cnt < 0 THEN Res(l, SubOverflow, "")
            ELSE LET w == delete_at_index_loop(l, l.head, cnt)
                 IN IF w.status # "ok" THEN Res(l, w.status, "")
                    ELSE IF is_none(l.next[w.node])
                    THEN Res(l, IndexOutOfBounds, "")
                    ELSE LET target == l.next[w.node]
                             t      == unwrap(target)
                         IN IF t.status # "ok" THEN Res(l, t.status, "")
                            ELSE LET cut == List(l.head, l.data,
                                                 [l.next EXCEPT
                                                    ![w.node] = l.next[t.node],
                                                    ![t.node] = Nil])
                                 IN Res(DropChain(cut, t.node), "ok", "")

\* ------------------------------------------------------------- reverse
\* the loop of reverse stopping before the last node
RECURSIVE reverse_loop_short(_, _, _)
reverse_loop_short(l, prev, curr) ==
    IF is_none(curr) \/ (is_some(prev) /\ is_none(l.next[curr]))
    THEN List(prev, l.data, l.next)
    ELSE LET nx == l.next[curr]
         IN reverse_loop_short(
                List(l.head, l.data, [l.next EXCEPT ![curr] = prev]), curr, nx)

RECURSIVE reverse_loop(_, _, _)
reverse_loop(l, prev, curr) ==
    IF is_none(curr) THEN List(prev, l.data, l.next)
    ELSE LET nx == l.next[curr]
         IN reverse_loop(List(l.head, l.data, [l.next EXCEPT ![curr] = prev]),
                         curr, nx)

\* reverse returning the list as it was
reverse_identity(l) == Res(l, "ok", "")

reverse(l) == Res(reverse_loop(l, Nil, l.head), "ok", "")

\* ------------------------------------------------- the reference array
\* The array a test keeps side by side with the list (positions from 0).
ArrInsert(a, v, k) ==
    [i \in 1..(Len(a) + 1) |->
        IF i <= k THEN a[i] ELSE IF i = k + 1 THEN v ELSE a[i - 1]]

ArrRemove(a, k) ==
    [i \in 1..(Len(a) - 1) |-> IF i <= k THEN a[i] ELSE a[i + 1]]

ArrReverse(a) == [i \in 1..Len(a) |-> a[Len(a) + 1 - i]]

Inserts == {"insert_at_head", "insert_at_tail", "insert_at_index"}

\* --------------------------------------------------------------- state
Cur == List(head, data, next)

Op(name, d, index, kind) ==
    [name |-> name, data |-> d, index |-> index, func |-> kind]

NoOp == Op("none", 0, 0, "none")

Init ==
    /\ head = Nil
    /\ data = <<>>
    /\ next = <<>>
    /\ abort = "none"
    /\ report = ""
    /\ lastOp = NoOp
    /\ pre = EmptyList
    /\ calls = <<>>
    /\ found = Nil
    /\ ref = <<>>
    /\ refValid = TRUE
    /\ caller \in {"main", "host"}
    /\ pc = 0

\* The caller stores the handle an operation returned (head = Node::op(head,
\* ..)); a panic ends the process with the list as it was when raised.
Call(r, op) ==
    /\ head' = r.head
    /\ data' = r.data
    /\ next' = r.next
    /\ abort' = IF r.status = "ok" THEN "none" ELSE r.status
    /\ report' = r.report
    /\ lastOp' = op
    /\ pre' = Cur
    /\ calls' = <<>>
    /\ found' = Nil
    /\ IF /\ op.name \in Inserts
          /\ refValid
          /\ r.status = "ok"
          /\ op.name = "insert_at_index" => op.index <= Len(ref)
       THEN /\ refValid' = TRUE
            /\ ref' = ArrInsert(ref, op.data,
                         CASE op.name = "insert_at_head" -> 0
                           [] op.name = "insert_at_tail" -> Len(ref)
                           [] op.name = "insert_at_index" -> op.index)
       ELSE /\ refValid' = FALSE
            /\ ref' = <<>>

Running == abort = "none"

\* ------------------------------------------------ calls of a host program
Host == caller = "host" /\ Running /\ UNCHANGED <<caller, pc>>

InsertAtHead ==
    /\ Host
    /\ Length(Cur) < MaxLen
    /\ \E v \in Values :
          Call(insert_at_head(Cur, v), Op("insert_at_head", v, 0, "none"))

InsertAtTail ==
    /\ Host
    /\ Length(Cur) < MaxLen
    /\ \E v \in Values :
          Call(insert_at_tail(Cur, v), Op("insert_at_tail", v, 0, "none"))

InsertAtIndex ==
    /\ Host
    /\ \E v \in Values, k \in Indices :
          /\ Length(Cur) < MaxLen \/ k > Length(Cur)
          /\ Call(insert_at_index(Cur, v, k), Op("insert_at_index", v, k, "none"))

DeleteAtHead ==
    /\ Host
    /\ Call(delete_at_head(Cur), Op("delete_at_head", 0, 0, "none"))

DeleteAtTail ==
    /\ Host
    /\ Call(delete_at_tail(Cur), Op("delete_at_tail", 0, 0, "none"))

DeleteAtIndex ==
    /\ Host
    /\ \E k \in Indices :
          Call(delete_at_index(Cur, k), Op("delete_at_index", 0, k, "none"))

Reverse ==
    /\ Host
    /\ Call(reverse(Cur), Op("reverse", 0, 0, "none"))

TraverseApply ==
    /\ Host
    /\ \E kind \in Visitors :
          LET t == traverse_apply(Cur, kind)
          IN /\ head' = t.list.head
             /\ data' = t.list.data
             /\ next' = t.list.next
             /\ calls' = t.log
             /\ lastOp' = Op("traverse_apply", 0, 0, kind)
             /\ pre' = Cur
             /\ found' = Nil
             /\ report' = ""
             /\ refValid' = FALSE
             /\ ref' = <<>>
             /\ UNCHANGED abort

Get ==
    /\ Host
    /\ \E k \in Indices :
          /\ found' = get(Cur, k)
          /\ lastOp' = Op("get", 0, k, "none")
          /\ pre' = Cur
          /\ calls' = <<>>
          /\ report' = ""
          /\ UNCHANGED <<head, data, next, abort, ref, refValid>>

\* ------------------------------------------------------------------ main
MainLast == 9

MainCall(i) ==
    CASE i = 1 -> Op("insert_at_head", 10, 0, "none")
      [] i = 2 -> Op("insert_at_head", 20, 0, "none")
      [] i = 3 -> Op("insert_at_head", 30, 0, "none")
      [] i = 4 -> Op("insert_at_tail", 40, 0, "none")
      [] i = 5 -> Op("insert_at_index", 50, 2, "none")
      [] i = 6 -> Op("delete_at_head", 0, 0, "none")
      [] i = 7 -> Op("delete_at_tail", 0, 0, "none")
      [] i = 8 -> Op("delete_at_index", 0, 1, "none")
      [] i = 9 -> Op("reverse", 0, 0, "none")

Apply(l, op) ==
    CASE op.name = "insert_at_head"  -> insert_at_head(l, op.data)
      [] op.name = "insert_at_tail"  -> insert_at_tail(l, op.data)
      [] op.name = "insert_at_index" -> insert_at_index(l, op.data, op.index)
      [] op.name = "delete_at_head"  -> delete_at_head(l)
      [] op.name = "delete_at_tail"  -> delete_at_tail(l)
      [] op.name = "delete_at_index" -> delete_at_index(l, op.index)
      [] op.name = "reverse"         -> reverse(l)

main ==
    /\ caller = "main"
    /\ Running
    /\ pc < MainLast
    /\ pc' = pc + 1
    /\ Call(Apply(Cur, MainCall(pc + 1)), MainCall(pc + 1))
    /\ UNCHANGED caller

Next ==
    \/ InsertAtHead
    \/ InsertAtTail
    \/ InsertAtIndex
    \/ DeleteAtHead
    \/ DeleteAtTail
    \/ DeleteAtIndex
    \/ Reverse
    \/ TraverseApply
    \/ Get
    \/ main

Spec == Init /\ [][Next]_vars

\* ---------------------------------------------------------------- claims
Deletes == {"delete_at_head", "delete_at_tail", "delete_at_index"}

PreSeq == ToSeq(pre)

\* the lists the reference trace states after each call of the scenario
MainClaimed ==
    << <<10>>, <<20, 10>>, <<30, 20, 10>>, <<30, 20, 10, 40>>,
       <<30, 20, 50, 10, 40>>, <<50, 20, 10, 40>>, <<50, 20, 10>>,
       <<50, 10>>, <<10, 50>> >>

\* the same trace with the head, not the second node, removed at call 6
MainAmended ==
    << <<10>>, <<20, 10>>, <<30, 20, 10>>, <<30, 20, 10, 40>>,
       <<30, 20, 50, 10, 40>>, <<20, 50, 10, 40>>, <<20, 50, 10>>,
       <<20, 10>>, <<10, 20>> >>

C2_GetMatchesReference ==
    /\ refValid =>
          \A i \in Indices :
             /\ i < Len(ref) => /\ get(Cur, i) \in DOMAIN data
                                /\ data[get(Cur, i)] = ref[i + 1]
             /\ i >= Len(ref) => get(Cur, i) = Nil
    /\ lastOp.name = "get" =>
          /\ Cur = pre
          /\ refValid =>
                IF lastOp.index < Len(ref)
                THEN found \in DOMAIN data /\ data[found] = ref[lastOp.index + 1]
                ELSE found = Nil

C2_Witness ==
    /\ refValid
    /\ lastOp.name = "get"
    /\ Len(ref) = MaxLen
    /\ lastOp.index = MaxLen - 1
    /\ found # Nil

\* C3: insert_at_index(L, v, k) panics with "Index out of bounds" exactly
\* when k > length(L), with no link or payload of L modified; otherwise it
\* returns a list of length length(L)+1 with v at position k, the elements
\* of L before k unchanged and those from k on shifted by one.
C3_InsertAtIndex ==
    lastOp.name = "insert_at_index" =>
        LET k == lastOp.index
            S == ToSeq(Cur)
        IN /\ (abort = IndexOutOfBounds) <=> (k > Len(PreSeq))
           /\ k > Len(PreSeq) => Cur = pre
           /\ k <= Len(PreSeq) =>
                 /\ abort = "none"
                 /\ Len(S) = Len(PreSeq) + 1
                 /\ S[k + 1] = lastOp.data
                 /\ \A i \in 1..k : S[i] = PreSeq[i]
                 /\ \A i \in (k + 2)..Len(S) : S[i] = PreSeq[i - 1]

C3_Witness ==
    /\ lastOp.name = "insert_at_index"
    /\ lastOp.index >= 1
    /\ lastOp.index < Len(PreSeq)
    /\ abort = "none"

\* C4: on a non-empty list of length n, delete_at_index(L, k) panics with
\* "Index out of bounds" exactly when k >= n, with no link of L modified;
\* otherwise it returns L without its element at position k, the other
\* nodes keeping their order.
C4_DeleteAtIndex ==
    (lastOp.name = "delete_at_index" /\ pre.head # Nil) =>
        LET k == lastOp.index
        IN /\ (abort = IndexOutOfBounds) <=> (k >= Len(PreSeq))
           /\ k >= Len(PreSeq) => Cur = pre
           /\ k < Len(PreSeq) =>
                 /\ abort = "none"
                 /\ ToSeq(Cur) = ArrRemove(PreSeq, k)
                 /\ NodeSeq(Cur) = ArrRemove(NodeSeq(pre), k)

C4_Witness ==
    /\ lastOp.name = "delete_at_index"
    /\ lastOp.index >= 1
    /\ lastOp.index < Len(PreSeq) - 1
    /\ abort = "none"

\* C5: on the empty list delete_at_head, delete_at_tail and delete_at_index
\* with any index return the empty list, print "List is empty" and do not
\* panic.
C5_DeleteOnEmpty ==
    (lastOp.name \in Deletes /\ pre.head = Nil) =>
        /\ Cur = EmptyList
        /\ report = ListIsEmpty
        /\ abort = "none"

C5_Witness ==
    /\ lastOp.name = "delete_at_index"
    /\ lastOp.index > 0
    /\ pre.head = Nil
    /\ report = ListIsEmpty

\* C6: reversing the result of reverse(L) gives L again, element by element.
C6_ReverseInvolution ==
    lastOp.name = "reverse" =>
        /\ reverse(Cur).status = "ok"
        /\ ToSeq(reverse(Cur)) = PreSeq

C6_Witness ==
    /\ lastOp.name = "reverse"
    /\ Len(PreSeq) = MaxLen
    /\ ToSeq(Cur) # PreSeq

\* C7: reverse(L) returns the nodes of L in the opposite order, none created
\* and none dropped, so that element i of the result is element n-1-i of L;
\* the empty list reverses to the empty list.
C7_ReverseInverts ==
    lastOp.name = "reverse" =>
        /\ abort = "none"
        /\ NodeSeq(Cur) = ArrReverse(NodeSeq(pre))
        /\ DOMAIN next = DOMAIN pre.next
        /\ data = pre.data
        /\ Len(ToSeq(Cur)) = Len(PreSeq)
        /\ \A i \in 1..Len(PreSeq) : ToSeq(Cur)[i] = PreSeq[Len(PreSeq) + 1 - i]
        /\ pre.head = Nil => head = Nil

C7_Witness ==
    /\ lastOp.name = "reverse"
    /\ Len(PreSeq) >= 3
    /\ PreSeq[1] # PreSeq[Len(PreSeq)]

\* C8: insert_at_tail(L, v) returns L followed by v, and delete_at_tail of
\* that result is L again, element by element.
C8_TailRoundTrip ==
    lastOp.name = "insert_at_tail" =>
        /\ abort = "none"
        /\ ToSeq(Cur) = Append(PreSeq, lastOp.data)
        /\ delete_at_tail(Cur).status = "ok"
        /\ ToSeq(delete_at_tail(Cur)) = PreSeq

C8_Witness ==
    /\ lastOp.name = "insert_at_tail"
    /\ Len(PreSeq) >= 2
    /\ abort = "none"

\* C9: traverse_apply calls the visitor once for each node, head first, on
\* the payload that node held, and leaves the nodes and their links as they
\* were; afterwards each position holds what the visitor wrote there, and
\* on the empty list the visitor is not called.
C9_TraverseApply ==
    lastOp.name = "traverse_apply" =>
        /\ Len(calls) = Len(PreSeq)
        /\ \A i \in 1..Len(calls) :
              /\ calls[i].node = NodeSeq(pre)[i]
              /\ calls[i].seen = PreSeq[i]
              /\ ToSeq(Cur)[i] = calls[i].wrote
        /\ head = pre.head
        /\ next = pre.next
        /\ NodeSeq(Cur) = NodeSeq(pre)
        /\ pre.head = Nil => calls = <<>>

C9_Witness ==
    /\ lastOp.name = "traverse_apply"
    /\ lastOp.func = "count"
    /\ Len(calls) = MaxLen
    /\ ToSeq(Cur) # PreSeq

\* C10: the only panic an operation raises is "Index out of bounds", raised
\* by insert_at_index or delete_at_index: no unwrap meets an absent link and
\* index - 1 is never computed with index = 0.
C10_OnlyIndexPanics ==
    /\ abort \in {"none", IndexOutOfBounds}
    /\ abort = IndexOutOfBounds =>
          lastOp.name \in {"insert_at_index", "delete_at_index"}

C10_Witness ==
    /\ lastOp.name = "delete_at_tail"
    /\ Len(PreSeq) >= 3
    /\ abort = "none"

====
